---- MODULE Spec2Model ----
(***************************************************************************)
(* Linear-space global alignment with affine gap penalties                 *)
(* (GotohSpaceEfficientAligner, src/alignment/pairwise/                    *)
(* gotoh_space_efficient.rs) together with Scoring, MatchParams and        *)
(* AlignmentResult::as_strings (src/alignment.rs).                         *)
(*                                                                         *)
(* Bytes are numbers (65 = 'A', 84 = 'T', 71 = 'G', 45 = '-'); a Seq is a  *)
(* TLA+ sequence, so Rust's s[i] is s[i + 1] here (operators At and Set),   *)
(* for the cost vectors cc and dd as for the sequences.                    *)
(* The recursion of compute_recursive is unfolded on an explicit stack of  *)
(* pending calls, processed leftmost first, which is the order in which    *)
(* the code evaluates and concatenates them.                               *)
(***************************************************************************)
EXTENDS Integers, Sequences, FiniteSets, TLC

VARIABLES pc, call, scoring, panic, x, y, stack, operations, result, strings

vars == <<pc, call, scoring, panic, x, y, stack, operations, result, strings>>

---------------------------------------------------------------------------
(* Bounds of the model and the inputs drawn by the actions.                *)

MaxLen == 3

Alphabet == {65, 84}

SeqsUpTo(k) == UNION {[1..l -> Alphabet] : l \in 0..k}

\* The sequences of the example in the module documentation.
ExampleX == <<65, 84, 71, 65, 84, 71, 65, 84, 71>>
ExampleY == <<65, 84, 71, 65, 65, 84, 71>>

Inputs == SeqsUpTo(MaxLen) \cup {ExampleX, ExampleY}

\* Arguments offered to the constructors, valid and invalid ones.
GapOpens == {-5, -1, 0, 1}
GapExtends == {-1, 0, 1}
MatchScores == {-1, 0, 2}
MismatchScores == {-1, 0, 1}

\* Closures handed to Scoring::new (any Fn(u8, u8) -> i32 is a MatchFunc).
Closures == {"ordered", "negative"}

\* '-' and the en dash U+2013.
GapChars == {45, 8211}

---------------------------------------------------------------------------
(* src/alignment.rs                                                        *)

\* pub type Score = i32; Score::MIN
ScoreMIN == -2147483647 - 1

\* std::cmp::max
Max(a, b) == IF a >= b THEN a ELSE b

\* Rust's s[i] on a slice
At(s, i) == s[i + 1]

\* Rust's &s[..k] and &s[k..]
SliceTo(s, k) == SubSeq(s, 1, k)
SliceFrom(s, k) == SubSeq(s, k + 1, Len(s))

\* vec![op; k]
RECURSIVE Repeat(_, _)
Repeat(op, k) == IF k <= 0 THEN <<>> ELSE Append(Repeat(op, k - 1), op)

\* v[i] = val on a vector
Set(v, i, val) == [v EXCEPT ![i + 1] = val]

Ok(v) == [ok |-> TRUE, msg |-> "", value |-> <<v>>]
Panic(msg) == [ok |-> FALSE, msg |-> msg, value |-> <<>>]

\* The body of a closure given to Scoring::new.
ClosureBody(name, a, b) ==
    IF name = "ordered"
    THEN (IF a = b THEN 1 ELSE IF a < b THEN 2 ELSE -3)
    ELSE (IF a = b THEN -1 ELSE -2)

\* MatchParams::new: the two assertions, then the struct.
MatchParams_new(match_score, mismatch_score) ==
    IF ~(match_score >= 0) THEN Panic("match_score can't be negative")
    ELSE IF ~(mismatch_score <= 0) THEN Panic("mismatch_score can't be positive")
    ELSE Ok([closure |-> "", match_score |-> match_score,
             mismatch_score |-> mismatch_score])

\* A closure as a MatchFunc value (the blanket impl for Fn(u8, u8) -> i32).
ClosureFn(name) == [closure |-> name, match_score |-> 0, mismatch_score |-> 0]

\* MatchFunc::score, for MatchParams and for closures.
MatchFunc_score(match_fn, a, b) ==
    IF match_fn.closure = ""
    THEN (IF a = b THEN match_fn.match_score ELSE match_fn.mismatch_score)
    ELSE ClosureBody(match_fn.closure, a, b)

\* from_scores without the assertion on gap_extend.
from_scores_NoExtendAssert(gap_open, gap_extend, match_score, mismatch_score) ==
    IF ~(gap_open <= 0) THEN Panic("gap_open can't be positive")
    ELSE LET mp == MatchParams_new(match_score, mismatch_score) IN
         IF ~mp.ok THEN mp
         ELSE Ok([gap_open |-> gap_open, gap_extend |-> gap_extend,
                  match_fn |-> mp.value[1],
                  match_scores |-> <<match_score, mismatch_score>>])

\* Scoring::from_scores
Scoring_from_scores(gap_open, gap_extend, match_score, mismatch_score) ==
    IF ~(gap_open <= 0) THEN Panic("gap_open can't be positive")
    ELSE IF ~(gap_extend <= 0) THEN Panic("gap_extend can't be positive")
    ELSE LET mp == MatchParams_new(match_score, mismatch_score) IN
         IF ~mp.ok THEN mp
         ELSE Ok([gap_open |-> gap_open, gap_extend |-> gap_extend,
                  match_fn |-> mp.value[1],
                  match_scores |-> <<match_score, mismatch_score>>])

\* Scoring::new
Scoring_new(gap_open, gap_extend, match_fn) ==
    IF ~(gap_open <= 0) THEN Panic("gap_open can't be positive")
    ELSE IF ~(gap_extend <= 0) THEN Panic("gap_extend can't be positive")
    ELSE Ok([gap_open |-> gap_open, gap_extend |-> gap_extend,
             match_fn |-> match_fn, match_scores |-> <<>>])

---------------------------------------------------------------------------
(* src/alignment/pairwise/gotoh_space_efficient.rs: cost_only              *)

\* Row 0 starting from 0 instead of gap_open.
cost_only_t0_NoOpen(sc) == 0

\* Line 159: t = self.scoring.gap_open, the running cost of row 0.
cost_only_t0(sc) == sc.gap_open

\* Lines 160-164: for j in 1..n, with j, cc, dd and t in st.
RECURSIVE cost_only_row0(_, _, _)
cost_only_row0(sc, n, st) ==
    IF st.j >= n THEN st
    ELSE LET t1 == st.t + sc.gap_extend
         IN  cost_only_row0(sc, n,
                 [j |-> st.j + 1, cc |-> Set(st.cc, st.j, t1),
                  dd |-> Set(st.dd, st.j, ScoreMIN), t |-> t1])

\* The deletion-run update with no opening penalty for a new run.
dd_update_NoOpen(sc, ddj, ccj) == Max(ddj, ccj) + sc.gap_extend

\* Line 175: the deletion-run value of column j.
dd_update(sc, ddj, ccj) == Max(ddj, ccj + sc.gap_open) + sc.gap_extend

\* The insertion-run update with no opening penalty for a new run.
e_update_NoOpen(sc, e, c) == Max(e, c) + sc.gap_extend

\* Line 174: the insertion-run value.
e_update(sc, e, c) == Max(e, c + sc.gap_open) + sc.gap_extend

\* The symbol of x read left to right whatever rev is.
cost_only_xi_Forward(xs, rev, m, i) == At(xs, i - 1)

\* Lines 179 and 184: the symbols compared at (i, j); m, n are lengths + 1.
cost_only_xi(xs, rev, m, i) == IF rev THEN At(xs, m - i - 1) ELSE At(xs, i - 1)
cost_only_yj(ys, rev, n, j) == IF rev THEN At(ys, n - j - 1) ELSE At(ys, j - 1)

\* Lines 173-189: for j in 1..n, with j and the other locals in st.
RECURSIVE cost_only_cols(_, _, _, _, _)
cost_only_cols(sc, xs, ys, rev, st) ==
    LET m == Len(xs) + 1
        n == Len(ys) + 1
        j == st.j
    IN  IF st.j >= n THEN st
        ELSE LET e1 == e_update(sc, st.e, st.c)
                 dj == dd_update(sc, At(st.dd, j), At(st.cc, j))
                 c1 == Max(Max(dj, e1),
                           st.s + MatchFunc_score(sc.match_fn,
                                                  cost_only_xi(xs, rev, m, st.i),
                                                  cost_only_yj(ys, rev, n, j)))
             IN  cost_only_cols(sc, xs, ys, rev,
                     [st EXCEPT !.j = j + 1, !.e = e1, !.dd = Set(st.dd, j, dj),
                                !.c = c1, !.s = At(st.cc, j),
                                !.cc = Set(st.cc, j, c1)])

\* Lines 166-190: for i in 1..m, with i and the other locals in st.
RECURSIVE cost_only_rows(_, _, _, _, _)
cost_only_rows(sc, xs, ys, rev, st) ==
    IF st.i >= Len(xs) + 1 THEN st
    ELSE LET t1 == st.t + sc.gap_extend
             st1 == [st EXCEPT !.j = 1, !.s = At(st.cc, 0), !.t = t1, !.c = t1,
                               !.cc = Set(st.cc, 0, t1), !.e = ScoreMIN]
             st2 == cost_only_cols(sc, xs, ys, rev, st1)
         IN  cost_only_rows(sc, xs, ys, rev, [st2 EXCEPT !.i = st.i + 1])

\* cost_only: the pair (cc, dd).
cost_only(sc, xs, ys, rev, tx) ==
    LET n == Len(ys) + 1
        r0 == cost_only_row0(sc, n,
                  [j |-> 1, cc |-> Repeat(0, n), dd |-> Repeat(0, n),
                   t |-> cost_only_t0(sc)])
        st == cost_only_rows(sc, xs, ys, rev,
                  [i |-> 1, j |-> 1, cc |-> r0.cc, dd |-> r0.dd,
                   e |-> 0, c |-> 0, s |-> 0, t |-> tx])
    IN  [cc |-> st.cc, dd |-> Set(st.dd, 0, At(st.cc, 0))]

---------------------------------------------------------------------------
(* nw_onerow                                                               *)

\* Lines 195-196.
score_by_indels_only(sc, n, tb, te) ==
    Max(tb, te) + sc.gap_extend * (n + 1) + sc.gap_open

\* Lines 198-199.
score_with_one_substitution_base(sc, n) ==
    (n - 1) * sc.gap_extend + sc.gap_open

\* Lines 203-209: the score of substituting x0 for y[j_].
nw_onerow_score(sc, x0, ys, n, j_) ==
    score_with_one_substitution_base(sc, n)
    + MatchFunc_score(sc.match_fn, x0, At(ys, j_))
    + (IF j_ = 0 \/ j_ = n - 1 THEN 0 ELSE sc.gap_open)

\* The scan running over 0..=n instead of 0..n.
nw_onerow_end_Inclusive(n) == n + 1

\* Line 201: for j_ in 0..n (the exclusive end of the range).
nw_onerow_end(n) == n

\* Lines 201-214: for j_ in j_..n-1, with the locals max and maxj_ in st.
RECURSIVE nw_onerow_scan(_, _, _, _, _, _)
nw_onerow_scan(sc, x0, ys, n, j_, st) ==
    IF j_ >= nw_onerow_end(n) THEN st
    ELSE LET score == nw_onerow_score(sc, x0, ys, n, j_)
         IN  nw_onerow_scan(sc, x0, ys, n, j_ + 1,
                 IF score > st.max THEN [max |-> score, maxj_ |-> j_] ELSE st)

\* nw_onerow: the operations aligning the single symbol x0 with ys.
nw_onerow(sc, x0, ys, n, tb, te) ==
    LET indels == score_by_indels_only(sc, n, tb, te)
        best == nw_onerow_scan(sc, x0, ys, n, 0, [max |-> indels, maxj_ |-> 0])
    IN  IF best.max = indels
        THEN <<"Del">> \o Repeat("Ins", n)
        ELSE Repeat("Ins", best.maxj_)
             \o <<IF x0 = At(ys, best.maxj_) THEN "Match" ELSE "Subst">>
             \o Repeat("Ins", n - best.maxj_ - 1)

---------------------------------------------------------------------------
(* find_mid                                                                *)

\* Line 123.
Imid(m) == m \div 2

\* The match join reading both vectors at the same column.
match_join_Unmirrored(up, lo, n, j) == At(up.cc, j) + At(lo.cc, j)

\* Line 130: the match-join value of column j.
match_join(up, lo, n, j) == At(up.cc, j) + At(lo.cc, n - j)

\* The deletion join keeping both halves' opening penalties.
deletion_join_OpenTwice(sc, up, lo, n, j) == At(up.dd, j) + At(lo.dd, n - j)

\* Line 136: the deletion-join value of column j.
deletion_join(sc, up, lo, n, j) ==
    At(up.dd, j) + At(lo.dd, n - j) - sc.gap_open

\* The scan with >= in both comparisons: the last candidate wins a tie.
RECURSIVE find_mid_scan_LastWins(_, _, _, _, _, _)
find_mid_scan_LastWins(sc, up, lo, n, j, st) ==
    IF j > n THEN st
    ELSE LET c == match_join(up, lo, n, j)
             st1 == IF c >= st.max
                    THEN [max |-> c, jmid |-> j, join_by_deletion |-> FALSE]
                    ELSE st
             d == deletion_join(sc, up, lo, n, j)
             st2 == IF d >= st1.max
                    THEN [max |-> d, jmid |-> j, join_by_deletion |-> TRUE]
                    ELSE st1
         IN  find_mid_scan_LastWins(sc, up, lo, n, j + 1, st2)

\* Lines 129-142: for j in j..=n, with max, jmid and join_by_deletion in st.
RECURSIVE find_mid_scan(_, _, _, _, _, _)
find_mid_scan(sc, up, lo, n, j, st) ==
    IF j > n THEN st
    ELSE LET c == match_join(up, lo, n, j)
             st1 == IF c > st.max
                    THEN [max |-> c, jmid |-> j, join_by_deletion |-> FALSE]
                    ELSE st
             d == deletion_join(sc, up, lo, n, j)
             st2 == IF d > st1.max
                    THEN [max |-> d, jmid |-> j, join_by_deletion |-> TRUE]
                    ELSE st1
         IN  find_mid_scan(sc, up, lo, n, j + 1, st2)

\* find_mid: (imid, jmid, join_by_deletion); max is the local it tracks.
find_mid(sc, xs, ys, m, n, tb, te) ==
    LET imid == Imid(m)
        up == cost_only(sc, SliceTo(xs, imid), ys, FALSE, tb)
        lo == cost_only(sc, SliceFrom(xs, imid), ys, TRUE, te)
        st == find_mid_scan(sc, up, lo, n, 0,
                  [max |-> ScoreMIN, jmid |-> 0, join_by_deletion |-> FALSE])
    IN  [imid |-> imid, jmid |-> st.jmid,
         join_by_deletion |-> st.join_by_deletion, max |-> st.max]

---------------------------------------------------------------------------
(* Run-time failures: the bounds checks Rust makes on s[i], &s[..k] and    *)
(* &s[k..], and the overflow check on a usize subtraction.                 *)

IndexOk(len, i) == 0 <= i /\ i < len
SliceOk(len, k) == 0 <= k /\ k <= len

\* cost_only, lines 151-191: x[m-i-1], y[n-j-1], x[i-1], y[j-1], cc[j], dd[j].
cost_only_panics(xs, ys, rev) ==
    LET m == Len(xs) + 1
        n == Len(ys) + 1
    IN  \E i \in 1..(m - 1), j \in 1..(n - 1) :
            \/ ~IndexOk(Len(xs), IF rev THEN m - i - 1 ELSE i - 1)
            \/ ~IndexOk(Len(ys), IF rev THEN n - j - 1 ELSE j - 1)
            \/ ~IndexOk(n, j)

\* nw_onerow, lines 201-232: y[j_], n - 1, y[maxj_], n - maxj_ - 1.
nw_onerow_panics(ys, n) ==
    \E j_ \in 0..(nw_onerow_end(n) - 1) : ~IndexOk(Len(ys), j_) \/ n - 1 < 0

\* find_mid, lines 123-142: &x[..imid], &x[imid..], cc[j], cc[n - j].
find_mid_panics(xs, ys, m, n) ==
    \/ ~SliceOk(Len(xs), Imid(m))
    \/ cost_only_panics(SliceTo(xs, Imid(m)), ys, FALSE)
    \/ cost_only_panics(SliceFrom(xs, Imid(m)), ys, TRUE)
    \/ \E j \in 0..n : ~IndexOk(Len(ys) + 1, j) \/ ~IndexOk(Len(ys) + 1, n - j)

\* Lines 86-88: the slices and lengths of the join-by-deletion calls.
deletion_join_panics(xs, ys, m, n, imid, jmid) ==
    \/ imid - 1 < 0
    \/ ~SliceOk(Len(xs), imid - 1)
    \/ ~SliceOk(Len(ys), jmid)
    \/ ~SliceOk(Len(xs), imid + 1)
    \/ m - imid - 1 < 0
    \/ n - jmid < 0

\* Lines 93-108: the slices and lengths of the match-join calls.
match_join_panics(xs, ys, m, n, imid, jmid) ==
    \/ ~SliceOk(Len(xs), imid)
    \/ ~SliceOk(Len(ys), jmid)
    \/ m - imid < 0
    \/ n - jmid < 0

---------------------------------------------------------------------------
(* compute_recursive, one call at a time                                   *)

\* A pending call compute_recursive(x, y, m, n, tb, te).
Call(xs, ys, m, n, tb, te) ==
    [kind |-> "call", x |-> xs, y |-> ys, m |-> m, n |-> n, tb |-> tb,
     te |-> te, ops |-> <<>>]

\* A vector waiting between two pending calls for its place in .concat().
Emit(ops) ==
    [kind |-> "emit", x |-> <<>>, y |-> <<>>, m |-> 0, n |-> 0, tb |-> 0,
     te |-> 0, ops |-> ops]

\* Lines 74-82: the three returns that make no recursive call.
IsBase(f) == f.n = 0 \/ f.m = 0 \/ f.m = 1

\* Lines 85-89: the elements of the array concatenated on a deletion join.
deletion_join_calls(sc, f, imid, jmid) ==
    << Call(SliceTo(f.x, imid - 1), SliceTo(f.y, jmid), imid - 1, jmid, f.tb, 0),
       Emit(Repeat("Del", 2)),
       Call(SliceFrom(f.x, imid + 1), SliceFrom(f.y, jmid),
            f.m - imid - 1, f.n - jmid, 0, f.te) >>

\* A match join whose right half keeps the whole of x.
match_join_calls_Unsliced(sc, f, imid, jmid) ==
    << Call(SliceTo(f.x, imid), SliceTo(f.y, jmid), imid, jmid, f.tb, sc.gap_open),
       Call(f.x, SliceFrom(f.y, jmid), f.m, f.n - jmid, 0, sc.gap_open) >>

\* Lines 92-109: the elements of the array concatenated on a match join.
match_join_calls(sc, f, imid, jmid) ==
    << Call(SliceTo(f.x, imid), SliceTo(f.y, jmid), imid, jmid, f.tb, sc.gap_open),
       Call(SliceFrom(f.x, imid), SliceFrom(f.y, jmid),
            f.m - imid, f.n - jmid, 0, sc.gap_open) >>

\* Lines 74-82: what a call without recursive calls returns.
compute_recursive_base(sc, f) ==
    IF f.n = 0 THEN Repeat("Del", f.m)
    ELSE IF f.m = 0 THEN Repeat("Ins", f.n)
    ELSE nw_onerow(sc, At(f.x, 0), f.y, f.n, f.tb, f.te)

\* Lines 83-111: the calls (and the two deletions) a splitting call makes.
compute_recursive_split(sc, f) ==
    LET mid == find_mid(sc, f.x, f.y, f.m, f.n, f.tb, f.te)
    IN  IF mid.join_by_deletion
        THEN deletion_join_calls(sc, f, mid.imid, mid.jmid)
        ELSE match_join_calls(sc, f, mid.imid, mid.jmid)

\* Whether the call fails at run time, before or after find_mid.
compute_recursive_panics(sc, f) ==
    IF f.n = 0 \/ f.m = 0 THEN FALSE
    ELSE IF f.m = 1 THEN ~IndexOk(Len(f.x), 0) \/ nw_onerow_panics(f.y, f.n)
    ELSE \/ find_mid_panics(f.x, f.y, f.m, f.n)
         \/ LET mid == find_mid(sc, f.x, f.y, f.m, f.n, f.tb, f.te)
            IN  IF mid.join_by_deletion
                THEN deletion_join_panics(f.x, f.y, f.m, f.n, mid.imid, mid.jmid)
                ELSE match_join_panics(f.x, f.y, f.m, f.n, mid.imid, mid.jmid)

---------------------------------------------------------------------------
(* AlignmentResult::as_strings, src/alignment.rs lines 16-48               *)

\* Line 17: gap_char as u8 keeps the low eight bits of the code point.
char_as_u8(ch) == ch % 256

\* Lines 22-42: the loop over the operations, with x, y, i, j in st.
RECURSIVE as_strings_loop(_, _, _, _)
as_strings_loop(res, gap, k, st) ==
    IF k > Len(res.operations) \/ st.panic THEN st
    ELSE LET dir == res.operations[k]
             xok == IndexOk(Len(res.x), st.i)
             yok == IndexOk(Len(res.y), st.j)
         IN  as_strings_loop(res, gap, k + 1,
               IF dir = "Del"
               THEN IF ~xok THEN [st EXCEPT !.panic = TRUE]
                    ELSE [st EXCEPT !.x = Append(st.x, At(res.x, st.i)),
                                    !.y = Append(st.y, gap), !.i = st.i + 1]
               ELSE IF dir = "Ins"
               THEN IF ~yok THEN [st EXCEPT !.panic = TRUE]
                    ELSE [st EXCEPT !.x = Append(st.x, gap),
                                    !.y = Append(st.y, At(res.y, st.j)),
                                    !.j = st.j + 1]
               ELSE IF dir = "Subst" \/ dir = "Match"
               THEN IF ~xok \/ ~yok THEN [st EXCEPT !.panic = TRUE]
                    ELSE [st EXCEPT !.x = Append(st.x, At(res.x, st.i)),
                                    !.y = Append(st.y, At(res.y, st.j)),
                                    !.i = st.i + 1, !.j = st.j + 1]
               ELSE st)

\* as_strings: the two byte strings, and the positions reached in x and y.
as_strings(res, gap_char) ==
    as_strings_loop(res, char_as_u8(gap_char), 1,
        [x |-> <<>>, y |-> <<>>, i |-> res.xstart, j |-> res.ystart,
         panic |-> FALSE])

---------------------------------------------------------------------------
(* The program as a state machine                                          *)

\* The arguments of the constructor call, kept to compare with what it built.
NoCall == [fn |-> "", gap_open |-> 0, gap_extend |-> 0, match_fn |-> ClosureFn("")]

\* The argument and the outcome of as_strings.
NoStrings == [gap_char |-> 0, x |-> <<>>, y |-> <<>>, i |-> 0, j |-> 0,
              panic |-> FALSE]

Init ==
    /\ pc = "new"
    /\ call = NoCall
    /\ scoring = <<>>
    /\ panic = ""
    /\ x = <<>>
    /\ y = <<>>
    /\ stack = <<>>
    /\ operations = <<>>
    /\ result = <<>>
    /\ strings = NoStrings

\* What a constructor leaves behind: a Scoring, or the panic of an assertion.
Constructed(r) ==
    /\ scoring' = r.value
    /\ panic' = r.msg
    /\ pc' = IF r.ok THEN "scored" ELSE "invalid"
    /\ UNCHANGED <<x, y, stack, operations, result, strings>>

\* Scoring::from_scores(gap_open, gap_extend, match_score, mismatch_score)
FromScores ==
    /\ pc = "new"
    /\ \E go \in GapOpens, ge \in GapExtends,
          ma \in MatchScores, mi \in MismatchScores :
          /\ call' = [fn |-> "from_scores", gap_open |-> go, gap_extend |-> ge,
                      match_fn |-> [closure |-> "", match_score |-> ma,
                                    mismatch_score |-> mi]]
          /\ Constructed(Scoring_from_scores(go, ge, ma, mi))

\* Scoring::new(gap_open, gap_extend, match_fn) with a closure
New ==
    /\ pc = "new"
    /\ \E go \in GapOpens, ge \in GapExtends, name \in Closures :
          /\ call' = [fn |-> "new", gap_open |-> go, gap_extend |-> ge,
                      match_fn |-> ClosureFn(name)]
          /\ Constructed(Scoring_new(go, ge, ClosureFn(name)))

\* GotohSpaceEfficientAligner::new(&scoring), lines 39-41
AlignerNew ==
    /\ pc = "scored"
    /\ pc' = "ready"
    /\ UNCHANGED <<call, scoring, panic, x, y, stack, operations, result, strings>>

\* global(x, y), lines 43-50: the call of compute_recursive
Global ==
    /\ pc = "ready"
    /\ \E xs \in Inputs, ys \in Inputs :
          /\ x' = xs
          /\ y' = ys
          /\ stack' = << Call(xs, ys, Len(xs), Len(ys),
                              scoring[1].gap_open, scoring[1].gap_open) >>
    /\ operations' = <<>>
    /\ pc' = "aligning"
    /\ UNCHANGED <<call, scoring, panic, result, strings>>

\* compute_recursive, lines 64-112, for the leftmost pending call
ComputeRecursive ==
    /\ pc = "aligning"
    /\ stack # <<>>
    /\ Head(stack).kind = "call"
    /\ LET f == Head(stack)
           sc == scoring[1]
       IN  IF compute_recursive_panics(sc, f)
           THEN /\ pc' = "panicked"
                /\ panic' = "index out of bounds"
                /\ UNCHANGED <<stack, operations>>
           ELSE IF IsBase(f)
           THEN /\ operations' = operations \o compute_recursive_base(sc, f)
                /\ stack' = Tail(stack)
                /\ UNCHANGED <<pc, panic>>
           ELSE /\ stack' = compute_recursive_split(sc, f) \o Tail(stack)
                /\ UNCHANGED <<pc, panic, operations>>
    /\ UNCHANGED <<call, scoring, x, y, result, strings>>

\* .concat(), lines 85-90: the two deletions between the two halves
Concat ==
    /\ pc = "aligning"
    /\ stack # <<>>
    /\ Head(stack).kind = "emit"
    /\ operations' = operations \o Head(stack).ops
    /\ stack' = Tail(stack)
    /\ UNCHANGED <<pc, call, scoring, panic, x, y, result, strings>>

\* Line 51: the score is cost_only(x, y, false, gap_open).0[y.len()].
global_score(sc, xs, ys) ==
    At(cost_only(sc, xs, ys, FALSE, sc.gap_open).cc, Len(ys))

\* Line 51: the index y.len() into a vector of length y.len() + 1.
global_panics(xs, ys) ==
    cost_only_panics(xs, ys, FALSE) \/ ~IndexOk(Len(ys) + 1, Len(ys))

\* global(x, y), lines 51-61: the score and the AlignmentResult
GlobalReturn ==
    /\ pc = "aligning"
    /\ stack = <<>>
    /\ IF global_panics(x, y)
       THEN /\ pc' = "panicked"
            /\ panic' = "index out of bounds"
            /\ UNCHANGED result
       ELSE /\ result' = << [operations |-> operations,
                             score |-> global_score(scoring[1], x, y),
                             x |-> x, y |-> y, xstart |-> 0, ystart |-> 0,
                             xend |-> Len(x), yend |-> Len(y)] >>
            /\ pc' = "done"
            /\ UNCHANGED panic
    /\ UNCHANGED <<call, scoring, x, y, stack, operations, strings>>

\* res.as_strings(gap_char)
AsStrings ==
    /\ pc = "done"
    /\ \E gap_char \in GapChars :
          strings' = [gap_char |-> gap_char] @@ as_strings(result[1], gap_char)
    /\ pc' = "shown"
    /\ UNCHANGED <<call, scoring, panic, x, y, stack, operations, result>>

Next ==
    \/ FromScores
    \/ New
    \/ AlignerNew
    \/ Global
    \/ ComputeRecursive
    \/ Concat
    \/ GlobalReturn
    \/ AsStrings

Spec == Init /\ [][Next]_vars

---------------------------------------------------------------------------
(* The private functions of the aligner, each called on its own.           *)

\* Every Scoring the constructors build from the arguments offered to them.
Scorings ==
    {r.value[1] : r \in
        {r \in {Scoring_from_scores(go, ge, ma, mi) :
                    go \in GapOpens, ge \in GapExtends,
                    ma \in MatchScores, mi \in MismatchScores}
                \cup {Scoring_new(go, ge, ClosureFn(name)) :
                          go \in GapOpens, ge \in GapExtends, name \in Closures} :
            r.ok}}

\* The terminal penalties compute_recursive passes down: lines 48-49, 86-107.
Terminals(sc) == {0, sc.gap_open}

\* Seeds of cost_only besides the two that find_mid passes.
OtherSeeds == {-3}

\* The function called and its arguments besides the scoring, x and y.
FnCall(fn, rev, tx, tb, te) ==
    [fn |-> fn, rev |-> rev, tx |-> tx, tb |-> tb, te |-> te]

\* An aligner over some Scoring, and two sequences.
FnInit ==
    /\ pc = "fn"
    /\ call = FnCall("", FALSE, 0, 0, 0)
    /\ \E sc \in Scorings : scoring = <<sc>>
    /\ panic = ""
    /\ x \in SeqsUpTo(MaxLen)
    /\ y \in SeqsUpTo(MaxLen)
    /\ stack = <<>>
    /\ operations = <<>>
    /\ result = <<>>
    /\ strings = NoStrings

\* What a function called on its own leaves behind.
FnReturned(c, r) ==
    /\ pc' = "returned"
    /\ call' = c
    /\ result' = <<r>>
    /\ UNCHANGED <<scoring, panic, x, y, stack, operations, strings>>

\* self.cost_only(x, y, rev, tx)
CostOnly ==
    /\ pc = "fn"
    /\ \E rev \in BOOLEAN, tx \in Terminals(scoring[1]) \cup OtherSeeds :
          FnReturned(FnCall("cost_only", rev, tx, 0, 0),
                     cost_only(scoring[1], x, y, rev, tx))

\* self.find_mid(x, y, m, n, tb, te), called by line 83 when m >= 2, n >= 1
FindMid ==
    /\ pc = "fn"
    /\ Len(x) >= 2
    /\ \E tb \in Terminals(scoring[1]), te \in Terminals(scoring[1]) :
          FnReturned(FnCall("find_mid", FALSE, 0, tb, te),
                     find_mid(scoring[1], x, y, Len(x), Len(y), tb, te))

\* self.nw_onerow(x[0], y, n, tb, te), called by line 81 when m = 1, n >= 1
NwOnerow ==
    /\ pc = "fn"
    /\ Len(x) = 1
    /\ Len(y) >= 1
    /\ \E tb \in Terminals(scoring[1]), te \in Terminals(scoring[1]) :
          FnReturned(FnCall("nw_onerow", FALSE, 0, tb, te),
                     nw_onerow(scoring[1], x[1], y, Len(y), tb, te))

\* find_mid and nw_onerow, the two functions compute_recursive calls.
FnNext ==
    \/ FindMid
    \/ NwOnerow

FnSpec == FnInit /\ [][FnNext]_vars

\* cost_only, the sweep that find_mid and global call.
SweepNext == CostOnly

SweepSpec == FnInit /\ [][SweepNext]_vars

---------------------------------------------------------------------------
(* src/alignment/pairwise/nw_se.rs: NwSpaceEfficientAligner, the aligner   *)
(* with a linear gap cost (gap_extend per gap symbol)                      *)

\* cost_only, lines 126-128: row 0, cc[j] = cc[j - 1] + gap_extend.
RECURSIVE Nw_cost_only_row0(_, _, _)
Nw_cost_only_row0(sc, n, st) ==
    IF st.j >= n THEN st
    ELSE Nw_cost_only_row0(sc, n,
             [j |-> st.j + 1,
              cc |-> Set(st.cc, st.j, At(st.cc, st.j - 1) + sc.gap_extend)])

\* cost_only, lines 132-144: for j in 1..n, with j, s and cc in st.
RECURSIVE Nw_cost_only_cols(_, _, _, _, _)
Nw_cost_only_cols(sc, xs, ys, rev, st) ==
    LET m == Len(xs) + 1
        n == Len(ys) + 1
        j == st.j
    IN  IF st.j >= n THEN st
        ELSE LET up == At(st.cc, j) + sc.gap_extend
                 left == At(st.cc, j - 1) + sc.gap_extend
                 diag == IF rev
                         THEN st.s + MatchFunc_score(sc.match_fn,
                                         At(xs, m - st.i - 1), At(ys, n - j - 1))
                         ELSE st.s + MatchFunc_score(sc.match_fn,
                                         At(xs, st.i - 1), At(ys, j - 1))
             IN  Nw_cost_only_cols(sc, xs, ys, rev,
                     [st EXCEPT !.j = j + 1, !.s = At(st.cc, j),
                                !.cc = Set(st.cc, j, Max(up, Max(left, diag)))])

\* cost_only, lines 129-145: for i in 1..m.
RECURSIVE Nw_cost_only_rows(_, _, _, _, _)
Nw_cost_only_rows(sc, xs, ys, rev, st) ==
    IF st.i >= Len(xs) + 1 THEN st
    ELSE LET s0 == At(st.cc, 0)
             st1 == [st EXCEPT !.j = 1, !.s = s0,
                               !.cc = Set(st.cc, 0, s0 + sc.gap_extend)]
             st2 == Nw_cost_only_cols(sc, xs, ys, rev, st1)
         IN  Nw_cost_only_rows(sc, xs, ys, rev, [st2 EXCEPT !.i = st.i + 1])

\* NwSpaceEfficientAligner::cost_only, lines 121-147: the vector cc.
Nw_cost_only(sc, xs, ys, rev) ==
    LET n == Len(ys) + 1
        r0 == Nw_cost_only_row0(sc, n, [j |-> 1, cc |-> Repeat(0, n)])
    IN  Nw_cost_only_rows(sc, xs, ys, rev,
            [i |-> 1, j |-> 1, s |-> 0, cc |-> r0.cc]).cc

\* find_mid, lines 51-57: for j in j..=n, with max and jmid in st.
RECURSIVE Nw_find_mid_scan(_, _, _, _)
Nw_find_mid_scan(upper, lower, n, st) ==
    IF st.j > n THEN st
    ELSE LET v == At(upper, st.j) + At(lower, n - st.j)
         IN  Nw_find_mid_scan(upper, lower, n,
                 IF v > st.max
                 THEN [j |-> st.j + 1, max |-> v, jmid |-> st.j]
                 ELSE [st EXCEPT !.j = st.j + 1])

\* NwSpaceEfficientAligner::find_mid, lines 45-59: (imid, jmid).
Nw_find_mid(sc, xs, ys, m, n) ==
    LET imid == m \div 2
        upper == Nw_cost_only(sc, SliceTo(xs, imid), ys, FALSE)
        lower == Nw_cost_only(sc, SliceFrom(xs, imid), ys, TRUE)
        st == Nw_find_mid_scan(upper, lower, n,
                  [j |-> 0, max |-> ScoreMIN, jmid |-> 0])
    IN  [imid |-> imid, jmid |-> st.jmid]

\* MatchFunc::score_with_operation, alignment.rs lines 54-61.
score_with_operation(match_fn, a, b) ==
    [score |-> MatchFunc_score(match_fn, a, b),
     op |-> IF a = b THEN "Match" ELSE "Subst"]

\* max_score_and_operation_precomputed, alignment.rs lines 228-245.
max_score_and_operation_precomputed(up, left, diag, diag_op) ==
    LET r1 == IF left > up THEN [max |-> left, op |-> "Ins"]
              ELSE [max |-> up, op |-> "Del"]
    IN  IF diag > r1.max THEN [max |-> diag, op |-> diag_op] ELSE r1

\* nw_onerow, lines 152-160: for j in 0..n, with j and the vectors S, T in st.
RECURSIVE Nw_nw_onerow_fill(_, _, _, _, _)
Nw_nw_onerow_fill(sc, x0, ys, n, st) ==
    IF st.j >= n THEN st
    ELSE LET j == st.j
             up == (j + 2) * sc.gap_extend
             left == At(st.S, j) + sc.gap_extend
             d == score_with_operation(sc.match_fn, x0, At(ys, j))
             r == max_score_and_operation_precomputed(
                      up, left, d.score + j * sc.gap_extend, d.op)
         IN  Nw_nw_onerow_fill(sc, x0, ys, n,
                 [j |-> j + 1, S |-> Append(st.S, r.max), T |-> Append(st.T, r.op)])

\* Line 162: T.iter().rposition(Match or Subst), -1 standing for None.
Nw_rposition(T) ==
    LET hits == {k \in 0..(Len(T) - 1) : At(T, k) \in {"Match", "Subst"}}
    IN  IF hits = {} THEN -1 ELSE CHOOSE k \in hits : \A h \in hits : h <= k

\* NwSpaceEfficientAligner::nw_onerow, lines 148-180.
Nw_nw_onerow(sc, x0, ys, n) ==
    LET T == Nw_nw_onerow_fill(sc, x0, ys, n,
                 [j |-> 0, S |-> <<sc.gap_extend>>, T |-> <<>>]).T
        k == Nw_rposition(T)
    IN  IF k >= 0
        THEN [h \in 1..Len(T) |-> IF h - 1 < k THEN "Ins" ELSE T[h]]
        ELSE Append(Repeat("Ins", n), "Del")

\* A pending call compute_recursive(x, y, m, n) of nw_se.rs.
Nw_Call(xs, ys, m, n) == [x |-> xs, y |-> ys, m |-> m, n |-> n]

\* Lines 31-36: the two returns that make no recursive call.
Nw_IsBase(f) == f.n = 0 \/ f.m = 1

\* Lines 31-36: what a base case returns.
Nw_compute_recursive_base(sc, f) ==
    IF f.n = 0 THEN Repeat("Del", f.m)
    ELSE Nw_nw_onerow(sc, At(f.x, 0), f.y, f.n)

\* Lines 37-43: find_mid and the two recursive calls.
Nw_compute_recursive_split(sc, f) ==
    LET mid == Nw_find_mid(sc, f.x, f.y, f.m, f.n)
    IN  << Nw_Call(SliceTo(f.x, mid.imid), SliceTo(f.y, mid.jmid),
                   mid.imid, mid.jmid),
           Nw_Call(SliceFrom(f.x, mid.imid), SliceFrom(f.y, mid.jmid),
                   f.m - mid.imid, f.n - mid.jmid) >>

\* NwSpaceEfficientAligner::new(scoring), lines 12-14, over some Scoring,
\* and the two sequences to align.
NwInit ==
    /\ pc = "nw_ready"
    /\ call = NoCall
    /\ \E sc \in Scorings : scoring = <<sc>>
    /\ panic = ""
    /\ x \in SeqsUpTo(MaxLen)
    /\ y \in SeqsUpTo(MaxLen)
    /\ stack = <<>>
    /\ operations = <<>>
    /\ result = <<>>
    /\ strings = NoStrings

\* global(x, y), line 16: the call of compute_recursive
NwGlobal ==
    /\ pc = "nw_ready"
    /\ stack' = << Nw_Call(x, y, Len(x), Len(y)) >>
    /\ operations' = <<>>
    /\ pc' = "nw_aligning"
    /\ UNCHANGED <<call, scoring, panic, x, y, result, strings>>

\* compute_recursive, lines 30-44, for the leftmost pending call
NwComputeRecursive ==
    /\ pc = "nw_aligning"
    /\ stack # <<>>
    /\ LET f == Head(stack)
           sc == scoring[1]
       IN  IF Nw_IsBase(f)
           THEN /\ operations' = operations \o Nw_compute_recursive_base(sc, f)
                /\ stack' = Tail(stack)
           ELSE /\ stack' = Nw_compute_recursive_split(sc, f) \o Tail(stack)
                /\ UNCHANGED operations
    /\ UNCHANGED <<pc, call, scoring, panic, x, y, result, strings>>

\* global(x, y), lines 17-27: the score and the AlignmentResult
NwGlobalReturn ==
    /\ pc = "nw_aligning"
    /\ stack = <<>>
    /\ result' = << [operations |-> operations,
                     score |-> At(Nw_cost_only(scoring[1], x, y, FALSE), Len(y)),
                     x |-> x, y |-> y, xstart |-> 0, ystart |-> 0,
                     xend |-> Len(x), yend |-> Len(y)] >>
    /\ pc' = "nw_done"
    /\ UNCHANGED <<call, scoring, panic, x, y, stack, operations, strings>>

NwNext ==
    \/ NwGlobal
    \/ NwComputeRecursive
    \/ NwGlobalReturn

NwSpec == NwInit /\ [][NwNext]_vars

---------------------------------------------------------------------------
(* Properties                                                              *)

\* global has returned (and as_strings may have been called on the result).
Returned == pc \in {"done", "shown"}

Res == result[1]

\* The three-matrix Gotoh recurrence on the full (|x|+1) x (|y|+1) table:
\* M ends in a match or substitution, D in a deletion, I in an insertion;
\* a run of k gaps costs gap_open + gap_extend * k.
RefNegInf == 0 - 1000000
\* Cell (i, j) from its neighbours: up (i-1, j), left (i, j-1), diag.
RefCell(sc, xs, ys, i, j, up, left, diag) ==
    LET best(c) == Max(c.M, Max(c.D, c.I))
        open == sc.gap_open + sc.gap_extend
    IN  [M |-> IF i = 0 /\ j = 0 THEN 0
               ELSE IF i = 0 \/ j = 0 THEN RefNegInf
               ELSE best(diag) + MatchFunc_score(sc.match_fn, xs[i], ys[j]),
         D |-> IF i = 0 THEN RefNegInf
               ELSE Max(up.D + sc.gap_extend, Max(up.M, up.I) + open),
         I |-> IF j = 0 THEN RefNegInf
               ELSE Max(left.I + sc.gap_extend, Max(left.M, left.D) + open)]

\* The neighbour of a cell on the border.
RefNone == [M |-> RefNegInf, D |-> RefNegInf, I |-> RefNegInf]

\* Row i of the table, cells 0..|y| at positions 1..|y|+1, from row i - 1.
RECURSIVE RefRow(_, _, _, _, _, _)
RefRow(sc, xs, ys, i, prev, row) ==
    LET j == Len(row)
    IN  IF j > Len(ys) THEN row
        ELSE RefRow(sc, xs, ys, i, prev,
                 Append(row, RefCell(sc, xs, ys, i, j,
                                     IF i = 0 THEN RefNone ELSE prev[j + 1],
                                     IF j = 0 THEN RefNone ELSE row[j],
                                     IF i = 0 \/ j = 0 THEN RefNone ELSE prev[j])))

RECURSIVE RefRows(_, _, _, _)
\* Rows 0..|x| in turn; the last row is returned.
RefRows(sc, xs, ys, st) ==
    IF st.i > Len(xs) THEN st.row
    ELSE RefRows(sc, xs, ys,
             [i |-> st.i + 1, row |-> RefRow(sc, xs, ys, st.i, st.row, <<>>)])

\* The optimum: the best of the three matrices at (|x|, |y|).
GotohReference(sc, xs, ys) ==
    LET c == RefRows(sc, xs, ys, [i |-> 0, row |-> <<>>])[Len(ys) + 1]
    IN  Max(c.M, Max(c.D, c.I))

\* The affine score of an operation sequence over (xs, ys): match_fn for each
\* Match or Subst, gap_open + gap_extend * k for each maximal run of k Del
\* and each maximal run of k Ins.
RECURSIVE RescoreFrom(_, _, _, _, _, _, _, _)
RescoreFrom(sc, ops, xs, ys, k, i, j, prev) ==
    IF k > Len(ops) THEN 0
    ELSE LET op == ops[k]
         IN  IF op = "Match" \/ op = "Subst"
             THEN MatchFunc_score(sc.match_fn, xs[i + 1], ys[j + 1])
                  + RescoreFrom(sc, ops, xs, ys, k + 1, i + 1, j + 1, op)
             ELSE IF op = "Del"
             THEN sc.gap_extend + (IF prev = "Del" THEN 0 ELSE sc.gap_open)
                  + RescoreFrom(sc, ops, xs, ys, k + 1, i + 1, j, op)
             ELSE IF op = "Ins"
             THEN sc.gap_extend + (IF prev = "Ins" THEN 0 ELSE sc.gap_open)
                  + RescoreFrom(sc, ops, xs, ys, k + 1, i, j + 1, op)
             ELSE RescoreFrom(sc, ops, xs, ys, k + 1, i, j, prev)

Rescore(sc, ops, xs, ys) == RescoreFrom(sc, ops, xs, ys, 1, 0, 0, "None")

Count(ops, op) == Cardinality({k \in 1..Len(ops) : ops[k] = op})

Bytes(s) == {s[k] : k \in 1..Len(s)}

\* A string of one-byte characters with every occurrence of ch removed.
RemoveChar(str, ch) == SelectSeq(str, LAMBDA b : b # ch)

\* C1: for every scoring with gap_open <= 0 and gap_extend <= 0 and every pair
\* of sequences, empty ones included, the score field returned by global
\* equals the optimal score of the quadratic-space three-matrix Gotoh
\* reference with gap cost gap_open + gap_extend * k.
C1_ScoreIsOptimal ==
    Returned => Res.score = GotohReference(scoring[1], x, y)

\* A returned alignment of two different non-empty sequences under a scoring
\* that charges for opening a gap, whose optimum uses gaps and matches.
C1_Witness ==
    /\ pc = "done"
    /\ scoring[1].gap_open < 0
    /\ Len(x) >= 2 /\ Len(y) > Len(x)
    /\ Count(Res.operations, "Match") > 0
    /\ Count(Res.operations, "Ins") > 0
    /\ Res.score = GotohReference(scoring[1], x, y)

\* C2: the operations returned by global, re-scored with match_fn for each
\* Match/Subst and gap_open + gap_extend * k for each maximal run of k Del or
\* k Ins, give exactly the score field of the same result.
C2_RescoreEqualsScore ==
    Returned => Rescore(scoring[1], Res.operations, x, y) = Res.score

\* C3: replaying the operations from (0, 0) consumes exactly |x| symbols of x
\* and |y| of y, and the two strings of as_strings(gap_char) with every
\* gap_char removed are x and y, for a gap_char that occurs in neither.
C3_StringsReproduceInputs ==
    (pc = "shown" /\ strings.gap_char \notin (Bytes(x) \cup Bytes(y)))
        => /\ ~strings.panic
           /\ strings.i = Len(x)
           /\ strings.j = Len(y)
           /\ RemoveChar(strings.x, strings.gap_char) = x
           /\ RemoveChar(strings.y, strings.gap_char) = y

\* C4: global never fails at call time: for every valid scoring and every
\* pair of sequences, empty ones included, no step of global,
\* compute_recursive, find_mid, cost_only or nw_onerow indexes out of range,
\* slices out of range or underflows a usize subtraction.
C4_NeverPanics ==
    /\ pc # "panicked"
    /\ (pc = "aligning" /\ stack # <<>> /\ Head(stack).kind = "call")
           => ~compute_recursive_panics(scoring[1], Head(stack))
    /\ (pc = "aligning" /\ stack = <<>>) => ~global_panics(x, y)

\* A join by deletion has produced imid - 1 and m - imid - 1, and the pending
\* calls include an empty x against a non-empty y.
C4_Witness ==
    /\ pc = "aligning"
    /\ \E k \in 1..Len(stack) : stack[k].kind = "emit"
    /\ \E k \in 1..Len(stack) :
          stack[k].kind = "call" /\ stack[k].m = 0 /\ stack[k].n > 0

\* C5: for one-symbol sequences x = [x0], y = [y0], global returns the single
\* operation Match when x0 = y0 and Subst when x0 # y0, and the score is
\* exactly match_fn(x0, y0).
C5_SingleSymbols ==
    (Returned /\ Len(x) = 1 /\ Len(y) = 1)
        => /\ Res.operations = << IF x[1] = y[1] THEN "Match" ELSE "Subst" >>
           /\ Res.score = MatchFunc_score(scoring[1].match_fn, x[1], y[1])

\* C6: for every scoring built by from_scores and every x, global(x, x)
\* returns score |x| * match_score and exactly |x| Match operations.
C6_SelfAlignment ==
    (Returned /\ scoring[1].match_scores # <<>> /\ x = y)
        => /\ Res.score = Len(x) * scoring[1].match_scores[1]
           /\ Res.operations = Repeat("Match", Len(x))

\* C7: for a sequence s of length k >= 1, global(s, empty) returns score
\* gap_open + gap_extend * k with exactly k Del, and global(empty, s) returns
\* the same score with exactly k Ins.
C7_EmptyAgainstNonEmpty ==
    /\ (Returned /\ Len(x) >= 1 /\ y = <<>>)
           => /\ Res.score = scoring[1].gap_open + scoring[1].gap_extend * Len(x)
              /\ Res.operations = Repeat("Del", Len(x))
    /\ (Returned /\ x = <<>> /\ Len(y) >= 1)
           => /\ Res.score = scoring[1].gap_open + scoring[1].gap_extend * Len(y)
              /\ Res.operations = Repeat("Ins", Len(y))

\* Both directions have returned under a scoring with both penalties charged.
C7_Witness ==
    /\ pc = "done"
    /\ scoring[1].gap_open < 0 /\ scoring[1].gap_extend < 0
    /\ x = <<>>
    /\ Len(y) >= 2
    /\ Count(Res.operations, "Ins") = Len(y)

\* C8: constructing a Scoring fails (and yields no Scoring) whenever
\* gap_open > 0 or gap_extend > 0, for Scoring::new and Scoring::from_scores,
\* and from_scores also fails whenever match_score < 0 or mismatch_score > 0;
\* every other construction succeeds and stores gap_open, gap_extend and the
\* match function unchanged.
C8_InvalidScoring ==
    pc # "new" =>
        LET bad == \/ call.gap_open > 0
                   \/ call.gap_extend > 0
                   \/ /\ call.fn = "from_scores"
                      /\ \/ call.match_fn.match_score < 0
                         \/ call.match_fn.mismatch_score > 0
        IN  /\ bad => (pc = "invalid" /\ scoring = <<>> /\ panic # "")
            /\ ~bad => /\ pc # "invalid"
                       /\ scoring # <<>>
                       /\ scoring[1].gap_open = call.gap_open
                       /\ scoring[1].gap_extend = call.gap_extend
                       /\ scoring[1].match_fn = call.match_fn

\* from_scores was refused for a positive gap_extend alone.
C8_Witness ==
    /\ pc = "invalid"
    /\ call.fn = "from_scores"
    /\ call.gap_open <= 0
    /\ call.gap_extend > 0
    /\ call.match_fn.match_score >= 0
    /\ call.match_fn.mismatch_score <= 0

\* The example of the module documentation:
\* global("ATGATGATG", "ATGAATG") under from_scores(-5, -1, 2, -1).
IsExample ==
    /\ Returned
    /\ x = ExampleX
    /\ y = ExampleY
    /\ scoring = Scoring_from_scores(-5, -1, 2, -1).value

\* C9 as stated: the example returns score 9, and its operations re-score
\* to 9.
C9_ExampleScoreNine ==
    IsExample => /\ Res.score = 9
                 /\ Rescore(scoring[1], Res.operations, x, y) = 9

\* C9 as the code has it: the example returns score 7 (seven matches at 2
\* and one gap of length 2 at -5 - 2), its operations re-score to 7, and
\* as_strings('-') gives "ATGATGATG" / "ATGA--ATG".
C9_ExampleScoreSeven ==
    IsExample => /\ Res.score = 7
                 /\ Rescore(scoring[1], Res.operations, x, y) = 7
                 /\ (pc = "shown" /\ strings.gap_char = 45)
                        => /\ strings.x = ExampleX
                           /\ strings.y = <<65, 84, 71, 65, 45, 45, 65, 84, 71>>

\* The example has returned and been formatted with '-'.
C9_Witness == IsExample /\ pc = "shown" /\ strings.gap_char = 45

\* Termination measure of the pending work: a call on m symbols of x makes
\* at most 4m - 1 steps (one, when m = 0); a waiting vector takes one.
Weight(f) == IF f.kind = "emit" \/ f.m = 0 THEN 1 ELSE 4 * f.m - 1

RECURSIVE Measure(_)
Measure(st) == IF st = <<>> THEN 0 ELSE Weight(Head(st)) + Measure(Tail(st))

\* What the call at the head of the stack has put in its place.
Pushed == SubSeq(stack', 1, Len(stack') - Len(stack) + 1)

\* C10: global terminates: every recursive call made by compute_recursive, in
\* the join-by-deletion branch and in the match-join branch, is on a strictly
\* shorter x than its caller, and a call makes no recursive call exactly in
\* the base cases n = 0, m = 0 and m = 1; so the pending work strictly
\* decreases with every step.
C10_Terminates ==
    [][(pc = "aligning" /\ pc' = "aligning")
          => /\ Measure(stack') < Measure(stack)
             /\ Head(stack).kind = "call"
                   => /\ IsBase(Head(stack)) <=> Pushed = <<>>
                      /\ \A k \in 1..Len(Pushed) :
                            Pushed[k].kind = "call"
                               => /\ Pushed[k].m < Head(stack).m
                                  /\ Pushed[k].m = Len(Pushed[k].x)]_vars

\* Calls of both branches are pending: the two halves of a match join, the
\* left one split again by a join by deletion.
C10_Witness ==
    /\ pc = "aligning"
    /\ Len(stack) >= 4
    /\ stack[1].kind = "call" /\ stack[2].kind = "emit"
    /\ stack[3].kind = "call" /\ stack[4].kind = "call"

\* The function fn has returned from a call with terminal penalties tb, te.
Called(fn, tb, te) ==
    pc = "returned" /\ call.fn = fn /\ call.tb = tb /\ call.te = te

\* C11: for every valid scoring, every x with |x| >= 2 and every y, the
\* maximum that find_mid(x, y, |x|, |y|, gap_open, gap_open) tracks over the
\* match-join and deletion-join values of all columns equals the optimal
\* global score cost_only(x, y, false, gap_open).cc[|y|] (which is the
\* optimum of the three-matrix reference).
C11_MidpointMaxIsOptimal ==
    Called("find_mid", scoring[1].gap_open, scoring[1].gap_open)
        => /\ result[1].max = global_score(scoring[1], x, y)
           /\ result[1].max = GotohReference(scoring[1], x, y)

\* find_mid has returned a join by deletion against a non-empty y under a
\* scoring that charges for opening a gap.
C11_Witness ==
    /\ Called("find_mid", scoring[1].gap_open, scoring[1].gap_open)
    /\ scoring[1].gap_open < 0
    /\ Len(x) = 3
    /\ Len(y) >= 1
    /\ result[1].join_by_deletion

\* Every global alignment of xs with ys, as a sequence of operations.
RECURSIVE Alignments(_, _)
Alignments(xs, ys) ==
    LET m == Len(xs)
        n == Len(ys)
    IN  IF m = 0 /\ n = 0 THEN {<<>>}
        ELSE (IF m = 0 THEN {}
              ELSE {Append(a, "Del") : a \in Alignments(SliceTo(xs, m - 1), ys)})
             \cup
             (IF n = 0 THEN {}
              ELSE {Append(a, "Ins") : a \in Alignments(xs, SliceTo(ys, n - 1))})
             \cup
             (IF m = 0 \/ n = 0 THEN {}
              ELSE {Append(a, IF xs[m] = ys[n] THEN "Match" ELSE "Subst") :
                       a \in Alignments(SliceTo(xs, m - 1), SliceTo(ys, n - 1))})

\* The alignments of xs with ys that delete x[imid - 1] and x[imid] one
\* after the other, after exactly j symbols of y: an alignment of what lies
\* before them, the two deletions, an alignment of what lies after them.
DeletingAcross(xs, ys, imid, j) ==
    {l \o <<"Del", "Del">> \o r :
        l \in Alignments(SliceTo(xs, imid - 1), SliceTo(ys, j)),
        r \in Alignments(SliceFrom(xs, imid + 1), SliceFrom(ys, j))}

\* The largest member of a non-empty set of integers.
MaxOf(S) == CHOOSE v \in S : \A w \in S : w <= v

\* The two cost_only sweeps of find_mid, lines 124-125.
Upper(tb) == cost_only(scoring[1], SliceTo(x, Imid(Len(x))), y, FALSE, tb)
Lower(te) == cost_only(scoring[1], SliceFrom(x, Imid(Len(x))), y, TRUE, te)

\* C12: for every x with |x| >= 2, every y and every column j in 0..=|y|,
\* the deletion-join value dd_upper[j] + dd_lower[n-j] - gap_open of find_mid
\* with tb = te = gap_open equals the best affine score among the alignments
\* of x and y that delete x[imid-1] and x[imid] one after the other right
\* after exactly j symbols of y, the deletion run around them being charged
\* gap_open once whatever its length.
C12_DeletionJoinValue ==
    Called("find_mid", scoring[1].gap_open, scoring[1].gap_open)
        => LET up == Upper(call.tb)
               lo == Lower(call.te)
           IN  \A j \in 0..Len(y) :
                  deletion_join(scoring[1], up, lo, Len(y), j)
                  = MaxOf({Rescore(scoring[1], a, x, y) :
                              a \in DeletingAcross(x, y, result[1].imid, j)})

\* find_mid has returned for an x of three symbols, where the run across
\* the join can take two or three deletions, and a y with inner columns.
C12_Witness ==
    /\ Called("find_mid", scoring[1].gap_open, scoring[1].gap_open)
    /\ scoring[1].gap_open < 0 /\ scoring[1].gap_extend < 0
    /\ Len(x) = 3
    /\ Len(y) = 2
    /\ result[1].imid = 1

\* Candidate (a) of the one-row solver: one Del, then n Ins. Its Del
\* continues a deletion of a neighbouring call when tb or te is 0, so it is
\* charged max(tb, te) for opening; with tb = te = gap_open this is the
\* plain affine score.
CandidateA(n) == <<"Del">> \o Repeat("Ins", n)
CandidateAScore(sc, n, tb, te) ==
    (Max(tb, te) + sc.gap_extend) + (sc.gap_open + sc.gap_extend * n)

\* Candidate (b_j): j Ins, x0 against y[j], then n - 1 - j Ins; its score is
\* match_fn plus gap_open + gap_extend * k for each non-empty run of k Ins.
CandidateB(x0, ys, j) ==
    Repeat("Ins", j)
    \o <<IF x0 = At(ys, j) THEN "Match" ELSE "Subst">>
    \o Repeat("Ins", Len(ys) - 1 - j)
CandidateBScore(sc, x0, ys, j) == Rescore(sc, CandidateB(x0, ys, j), <<x0>>, ys)

\* C13: for a single symbol x0, a non-empty y and tb, te in {0, gap_open},
\* nw_onerow returns the best of its n + 1 candidates by their affine
\* scores: candidate (a) when no (b_j) scores strictly higher, and otherwise
\* a (b_j) of the highest score.
C13_OneRowBestCandidate ==
    (pc = "returned" /\ call.fn = "nw_onerow")
        => LET sc == scoring[1]
               n == Len(y)
               a == CandidateAScore(sc, n, call.tb, call.te)
               b == MaxOf({CandidateBScore(sc, x[1], y, j) : j \in 0..(n - 1)})
           IN  IF b > a
               THEN \E j \in 0..(n - 1) :
                       /\ CandidateBScore(sc, x[1], y, j) = b
                       /\ result[1] = CandidateB(x[1], y, j)
               ELSE result[1] = CandidateA(n)

\* The join values find_mid examines, column by column: the match join of
\* column j is examined before its deletion join.
Joins ==
    LET up == Upper(call.tb)
        lo == Lower(call.te)
    IN  [j \in 0..Len(y) |->
            [c |-> match_join(up, lo, Len(y), j),
             d |-> deletion_join(scoring[1], up, lo, Len(y), j)]]

\* C14: find_mid breaks ties towards the earliest candidate: jmid is the
\* smallest column at which a join value equals the maximum, and
\* join_by_deletion is false whenever the match-join value at jmid attains
\* the maximum (true only if the deletion-join value at jmid is strictly
\* greater than every value examined before it).
C14_EarliestCandidateWins ==
    (pc = "returned" /\ call.fn = "find_mid")
        => LET r == result[1]
               v == Joins
               best == MaxOf({v[j].c : j \in 0..Len(y)} \cup {v[j].d : j \in 0..Len(y)})
           IN  /\ r.max = best
               /\ v[r.jmid].c = best \/ v[r.jmid].d = best
               /\ \A j \in 0..(r.jmid - 1) : v[j].c < best /\ v[j].d < best
               /\ r.join_by_deletion <=> v[r.jmid].c < best

\* find_mid has returned where the maximum is attained more than once: by
\* both joins of column jmid and again at a later column.
C14_Witness ==
    /\ pc = "returned" /\ call.fn = "find_mid"
    /\ scoring[1].gap_open < 0
    /\ Joins[result[1].jmid].c = result[1].max
    /\ Joins[result[1].jmid].d = result[1].max
    /\ \E j \in (result[1].jmid + 1)..Len(y) : Joins[j].c = result[1].max

Reverse(s) == [k \in 1..Len(s) |-> s[Len(s) + 1 - k]]

NwPushed == SubSeq(stack', 1, Len(stack') - Len(stack) + 1)

\* C16: NwSpaceEfficientAligner.global(x, y) terminates for every pair of
\* finite sequences, an empty x with a non-empty y included: every chain of
\* recursive calls of compute_recursive reaches a base case (n = 0 or
\* m = 1). The callees of a call get slices of its x and y; the chain is
\* finite exactly when no callee gets the whole of both, that is, when
\* every recursive call is on a strictly smaller pair.
C16_NwTerminates ==
    [][(pc = "nw_aligning" /\ pc' = "nw_aligning")
          => LET f == Head(stack)
             IN  /\ Nw_IsBase(f) <=> NwPushed = <<>>
                 /\ \A k \in 1..Len(NwPushed) :
                        /\ NwPushed[k].m <= f.m
                        /\ NwPushed[k].n <= f.n
                        /\ NwPushed[k].m + NwPushed[k].n < f.m + f.n]_vars

====
